---- MODULE Spec2Model ----
(***************************************************************************)
(* Model of slacker-bot (src/bot_v4.py): the per-user selection store      *)
(* (UserData), the message and callback handlers of the selection wizard,  *)
(* and the dispatch handler reply_message.                                 *)
(*                                                                         *)
(* One action per handler.  telebot runs the first registered handler      *)
(* whose filter matches, so each action is guarded by MessageHandler /     *)
(* CallbackHandler, which replay the registration order of the source.     *)
(* A handler runs to completion, and the transport calls bot.send_message  *)
(* and bot.edit_message_text are taken to succeed.                         *)
(*                                                                         *)
(* Spec is a run in which one user sends up to MaxEvents events;           *)
(* SpecShared is a run in which every user of Users sends, up to           *)
(* MaxSharedEvents events in all.                                          *)
(***************************************************************************)
EXTENDS Integers, Sequences, FiniteSets, TLC

(***************************************************************************)
(* Bounds of the model.                                                    *)
(***************************************************************************)
\* Number of inbound events handled in a run with a single sender.
MaxEvents == 6
\* Number of inbound events handled in a run in which every user sends.
MaxSharedEvents == 3

\* The user ids.  Every handler indexes the store by the id of the event's
\* sender only.
Users == {1, 2}

(***************************************************************************)
(* Constants of the program (src/bot_v4.py:44-57).                         *)
(***************************************************************************)
DEFAULT_MODEL == "deepseek-reasoner"
DEFAULT_PROVIDER == "DeepSeek"
AVAILABLE_CHATGPT_MODELS == <<"gpt-4o-mini", "gpt-3.5-turbo", "gpt-4o">>
AVAILABLE_CLAUDE_MODELS ==
    <<"claude-3-5-sonnet-20240620", "claude-3-7-sonnet-20250219", "claude-3-haiku-20240307">>
AVAILABLE_DEEPSEEK_MODELS == <<"deepseek-chat", "deepseek-coder", "deepseek-reasoner">>

\* class UserState
NORMAL == "normal"
CHOOSING_PROVIDER == "choosing_provider"
CHOOSING_MODEL == "choosing_chatgpt_model"
CHOOSING_CLAUDE_MODEL == "choosing_claude_model"
CHOOSING_DEEPSEEK_MODEL == "choosing_deepseek_model"

Range(s) == {s[i] : i \in DOMAIN s}

\* The model list of a provider (lines 46-48); no list for any other name.
ProviderModels(provider) ==
    IF provider = "DeepSeek" THEN Range(AVAILABLE_DEEPSEEK_MODELS)
    ELSE IF provider = "ChatGPT" THEN Range(AVAILABLE_CHATGPT_MODELS)
    ELSE IF provider = "Claude" THEN Range(AVAILABLE_CLAUDE_MODELS)
    ELSE {}

\* The three provider labels of the reply keyboard and of the filter of
\* handle_provider_choice.
ProviderLabels == <<"DeepSeek", "ChatGPT", "Claude">>

(***************************************************************************)
(* State.                                                                  *)
(***************************************************************************)
VARIABLES
    models,     \* UserData.models: user id -> model, a dict (partial function)
    states,     \* UserData.states: user id -> wizard state
    providers,  \* UserData.providers: user id -> provider
    ev,         \* the event handled last, with the wizard state it arrived in
    calls,      \* the Provider Client invocations made while handling ev
    sent,       \* the outbound messages issued while handling ev, in order
    senders,    \* the users events arrive from in this run
    budget,     \* number of events the run may still handle
    unit        \* the program that runs, or the unit exercised on its own

vars == <<models, states, providers, ev, calls, sent, senders, budget, unit>>

(***************************************************************************)
(* UserData (src/bot_v4.py:60-93).  A dict is a function whose domain is   *)
(* the set of keys present.                                                *)
(***************************************************************************)
DictGet(d, k, default) == IF k \in DOMAIN d THEN d[k] ELSE default
\* Variant of DictSet: one value shared by all keys, as in a store that is not
\* keyed by the user id.
DictSetShared(d, k, v) == [x \in (DOMAIN d) \cup {k} |-> v]

DictSet(d, k, v) == [x \in (DOMAIN d) \cup {k} |-> IF x = k THEN v ELSE d[x]]

get_model(ms, u) == DictGet(ms, u, DEFAULT_MODEL)
set_model(ms, u, m) == DictSet(ms, u, m)
get_state(ss, u) == DictGet(ss, u, NORMAL)
set_state(ss, u, s) == DictSet(ss, u, s)
\* Variant of reset_state: an existing record is put back to the provider step.
reset_state_to_provider_step(ss, u) ==
    IF u \in DOMAIN ss THEN DictSet(ss, u, CHOOSING_PROVIDER) ELSE ss

reset_state(ss, u) == IF u \in DOMAIN ss THEN DictSet(ss, u, NORMAL) ELSE ss
\* Variant of get_provider: a user without a record is given the first
\* provider of the menu.
get_provider_first_label(ps, u) == DictGet(ps, u, "ChatGPT")

get_provider(ps, u) == DictGet(ps, u, DEFAULT_PROVIDER)
set_provider(ps, u, p) == DictSet(ps, u, p)

(***************************************************************************)
(* Inbound message texts.  A text is a string; the command filter of       *)
(* telebot (commands=[...]) matches a text whose first word is "/" + name. *)
(***************************************************************************)
CommandNames ==
    {"clear_keyboard", "quick_model", "start", "help", "current_model", "choose_model"}
FreeTexts == {"2+2?"}
Texts ==
    {"/" \o c : c \in CommandNames}
        \cup Range(ProviderLabels)
        \cup Range(AVAILABLE_CHATGPT_MODELS)
        \cup Range(AVAILABLE_CLAUDE_MODELS)
        \cup Range(AVAILABLE_DEEPSEEK_MODELS)
        \cup FreeTexts

\* telebot.util.extract_command, on the texts above: the command name or "".
extract_command(text) ==
    IF \E c \in CommandNames : text = "/" \o c
    THEN CHOOSE c \in CommandNames : text = "/" \o c
    ELSE ""

\* The message handler telebot runs for a text: the first registered handler
\* whose filter accepts it, in the order of the decorators in the source.
MessageHandler(text) ==
    IF extract_command(text) = "clear_keyboard" THEN "clear_keyboard"
    ELSE IF extract_command(text) = "quick_model" THEN "quick_model_selection"
    ELSE IF extract_command(text) = "start" THEN "start_message"
    ELSE IF extract_command(text) = "help" THEN "help_message"
    ELSE IF extract_command(text) = "current_model" THEN "show_current_model"
    ELSE IF extract_command(text) = "choose_model" THEN "choose_model"
    ELSE IF text \in Range(ProviderLabels) THEN "handle_provider_choice"
    ELSE IF text \in Range(AVAILABLE_CHATGPT_MODELS) THEN "handle_model_choice"
    ELSE IF text \in Range(AVAILABLE_CLAUDE_MODELS) THEN "handle_claude_model_choice"
    ELSE IF text \in Range(AVAILABLE_DEEPSEEK_MODELS) THEN "handle_deepseek_model_choice"
    ELSE "reply_message"

\* extract_command tabulated over the texts of the model.
CommandOf == [t \in Texts |-> extract_command(t)]

MessageHandlers ==
    {"clear_keyboard", "quick_model_selection", "start_message", "help_message",
     "show_current_model", "choose_model", "handle_provider_choice", "handle_model_choice",
     "handle_claude_model_choice", "handle_deepseek_model_choice", "reply_message"}

\* The texts of the model each message handler is run for.
TextsOf == [h \in MessageHandlers |-> {t \in Texts : MessageHandler(t) = h}]

(***************************************************************************)
(* Callback data.  A data string is a sequence of pieces, the piece "_"    *)
(* standing for the underscore character and every other piece for a run   *)
(* of characters without underscore; str.split("_"), "_".join and          *)
(* str.startswith are computed on the pieces.                              *)
(***************************************************************************)
RECURSIVE SplitFrom(_, _, _, _)
SplitFrom(data, i, cur, acc) ==
    IF i > Len(data) THEN Append(acc, cur)
    ELSE IF data[i] = "_" THEN SplitFrom(data, i + 1, "", Append(acc, cur))
    ELSE SplitFrom(data, i + 1, cur \o data[i], acc)

\* data.split("_")
Split(data) == SplitFrom(data, 1, "", <<>>)

\* "_".join(parts[k:])  (k counts from 0 as in the source)
RECURSIVE JoinFrom(_, _)
JoinFrom(parts, k) ==
    IF k + 1 > Len(parts) THEN ""
    ELSE IF k + 1 = Len(parts) THEN parts[k + 1]
    ELSE parts[k + 1] \o "_" \o JoinFrom(parts, k + 1)

\* data.startswith(prefix)
StartsWith(data, prefix) ==
    /\ Len(data) >= Len(prefix)
    /\ SubSeq(data, 1, Len(prefix)) = prefix

\* create_provider_keyboard: callback_data of its three buttons
ProviderButtons == {<<"provider", "_", p>> : p \in Range(ProviderLabels)}

\* create_model_keyboard(provider): callback_data of its buttons
ModelButtons(provider) ==
    IF provider = "DeepSeek"
    THEN {<<"deepseek", "_", "model", "_", m>> : m \in Range(AVAILABLE_DEEPSEEK_MODELS)}
    ELSE IF provider = "ChatGPT"
    THEN {<<"chatgpt", "_", "model", "_", m>> : m \in Range(AVAILABLE_CHATGPT_MODELS)}
    ELSE IF provider = "Claude"
    THEN {<<"claude", "_", "model", "_", m>> : m \in Range(AVAILABLE_CLAUDE_MODELS)}
    ELSE {}

\* Every model button a model keyboard carries.
AllModelButtons == UNION {ModelButtons(p) : p \in Range(ProviderLabels)}

\* quick_model_selection: callback_data of its three quick buttons
QuickButtons ==
    { <<"quick", "_", "model", "_", "ChatGPT", "_", "gpt-4o">>,
      <<"quick", "_", "model", "_", "Claude", "_", "claude-3-7-sonnet-20250219">>,
      <<"quick", "_", "model", "_", "DeepSeek", "_", "deepseek-reasoner">> }

SelectProviderData == <<"select", "_", "provider">>

\* Every callback_data the bot puts on a button.
ButtonData ==
    {SelectProviderData} \cup ProviderButtons \cup QuickButtons
        \cup AllModelButtons

\* Callback data no button carries but a client can send: the handlers'
\* filters test the prefix only.
ForgedData ==
    { <<"quick", "_", "model", "_", "ChatGPT", "_", "deepseek-chat">>,
      <<"quick", "_", "model", "_", "Gemini", "_", "gemini-pro">> }

CallbackData == ButtonData \cup ForgedData

\* The callback handler telebot runs for a data string, in registration order.
CallbackHandler(data) ==
    IF data = SelectProviderData THEN "callback_select_provider"
    ELSE IF StartsWith(data, <<"provider", "_">>) THEN "callback_provider_selected"
    ELSE IF \/ StartsWith(data, <<"deepseek", "_", "model", "_">>)
            \/ StartsWith(data, <<"chatgpt", "_", "model", "_">>)
            \/ StartsWith(data, <<"claude", "_", "model", "_">>)
         THEN "callback_model_selected"
    ELSE IF StartsWith(data, <<"quick", "_", "model", "_">>) THEN "callback_quick_model_selected"
    ELSE "none"

CallbackHandlers ==
    {"callback_select_provider", "callback_provider_selected", "callback_model_selected",
     "callback_quick_model_selected"}

\* The callback data of the model each callback handler is run for.
DataOf == [h \in CallbackHandlers |-> {d \in CallbackData : CallbackHandler(d) = h}]

(***************************************************************************)
(* Outbound messages.  A message is its text template (tag), the values    *)
(* formatted into it (arg) and, for a chunk reply[lo:hi] of a provider     *)
(* reply, the slice bounds.                                                *)
(***************************************************************************)
Msg(tag, arg) == [tag |-> tag, arg |-> arg, lo |-> 0, hi |-> 0]
Chunk(lo, hi) == [tag |-> "reply", arg |-> <<>>, lo |-> lo, hi |-> hi]

NoEvent ==
    [user |-> 0, kind |-> "none", text |-> "", data |-> <<>>, handler |-> "none",
     pre |-> NORMAL]

\* Bookkeeping of every handler: the event is recorded with the wizard state
\* get_state returned when it arrived.
Receive(u, kind, text, data, handler) ==
    /\ unit.pc = "bot_v4"
    /\ u \in senders
    /\ budget > 0
    /\ budget' = budget - 1
    /\ UNCHANGED <<senders, unit>>
    /\ ev' = [user |-> u, kind |-> kind, text |-> text, data |-> data, handler |-> handler,
              pre |-> get_state(states, u)]

\* user_data = UserData(): the three dicts are empty.
EmptyStore ==
    /\ models = <<>>
    /\ states = <<>>
    /\ providers = <<>>
    /\ ev = NoEvent
    /\ calls = <<>>
    /\ sent = <<>>

\* The value of unit while a bot runs: no unit is exercised on its own.
NoResult == [kind |-> "none", exc |-> "", text |-> "", len |-> 0]
Running(program) ==
    [pc |-> program, script |-> <<>>, retries |-> 0, invoked |-> 0, sleeps |-> <<>>,
     result |-> NoResult, len |-> 0]

\* One user talks to the bot.
Init ==
    /\ EmptyStore
    /\ senders = {1}
    /\ budget = MaxEvents
    /\ unit = Running("bot_v4")

\* Every user talks to the bot.
InitShared ==
    /\ EmptyStore
    /\ senders = Users
    /\ budget = MaxSharedEvents
    /\ unit = Running("bot_v4")

(***************************************************************************)
(* Command handlers (src/bot_v4.py:181-291).                               *)
(***************************************************************************)
\* Variant of clear_keyboard: removing the keyboard also ends the wizard.
clear_keyboard_ends_wizard ==
    \E u \in Users, text \in TextsOf["clear_keyboard"] :
        /\ Receive(u, "message", text, <<>>, "clear_keyboard")
        /\ sent' = <<Msg("keyboard_removed", <<>>)>>
        /\ calls' = <<>>
        /\ states' = reset_state(states, u)
        /\ UNCHANGED <<models, providers>>

clear_keyboard ==
    \E u \in Users, text \in TextsOf["clear_keyboard"] :
        /\ Receive(u, "message", text, <<>>, "clear_keyboard")
        /\ sent' = <<Msg("keyboard_removed", <<>>)>>
        /\ calls' = <<>>
        /\ UNCHANGED <<models, states, providers>>

quick_model_selection ==
    \E u \in Users, text \in TextsOf["quick_model_selection"] :
        /\ Receive(u, "message", text, <<>>, "quick_model_selection")
        /\ sent' = <<Msg("quick_menu", <<>>)>>
        /\ calls' = <<>>
        /\ UNCHANGED <<models, states, providers>>

start_message ==
    \E u \in Users, text \in TextsOf["start_message"] :
        /\ Receive(u, "message", text, <<>>, "start_message")
        /\ sent' = <<Msg("welcome", <<>>)>>
        /\ calls' = <<>>
        /\ UNCHANGED <<models, states, providers>>

help_message ==
    \E u \in Users, text \in TextsOf["help_message"] :
        /\ Receive(u, "message", text, <<>>, "help_message")
        /\ sent' = <<Msg("help", <<>>)>>
        /\ calls' = <<>>
        /\ UNCHANGED <<models, states, providers>>

show_current_model ==
    \E u \in Users, text \in TextsOf["show_current_model"] :
        /\ Receive(u, "message", text, <<>>, "show_current_model")
        /\ sent' = <<Msg("current_settings",
                         <<get_provider(providers, u), get_model(models, u)>>)>>
        /\ calls' = <<>>
        /\ UNCHANGED <<models, states, providers>>

\* Variant of choose_model_state: the entry command resets the wizard instead
\* of opening the provider step.
choose_model_state_reset(ss, u) == set_state(ss, u, NORMAL)

\* choose_model, its store effect: set_state(user_id, CHOOSING_PROVIDER)
choose_model_state(ss, u) == set_state(ss, u, CHOOSING_PROVIDER)

choose_model ==
    \E u \in Users, text \in TextsOf["choose_model"] :
        /\ Receive(u, "message", text, <<>>, "choose_model")
        /\ sent' = <<Msg("preparing_menu", <<>>), Msg("choose_provider_menu", <<>>)>>
        /\ states' = choose_model_state(states, u)
        /\ calls' = <<>>
        /\ UNCHANGED <<models, providers>>

(***************************************************************************)
(* Callback handlers (src/bot_v4.py:294-375).                              *)
(***************************************************************************)
callback_select_provider ==
    \E u \in Users, data \in DataOf["callback_select_provider"] :
        /\ Receive(u, "callback", "", data, "callback_select_provider")
        /\ sent' = <<Msg("edit_provider_menu", <<>>)>>
        /\ calls' = <<>>
        /\ UNCHANGED <<models, states, providers>>

\* callback_provider_selected: provider = call.data.split("_")[1]
provider_of_callback(data) == Split(data)[2]
ProviderOfData ==
    [d \in DataOf["callback_provider_selected"] |-> provider_of_callback(d)]

callback_provider_selected ==
    \E u \in Users, data \in DataOf["callback_provider_selected"] :
        /\ Receive(u, "callback", "", data, "callback_provider_selected")
        /\ providers' = set_provider(providers, u, ProviderOfData[data])
        /\ sent' = <<Msg("edit_model_menu", <<ProviderOfData[data]>>)>>
        /\ calls' = <<>>
        /\ UNCHANGED <<models, states>>

\* callback_model_selected: model_name = "_".join(parts[2:])
model_of_callback(data) == JoinFrom(Split(data), 2)
ModelOfData == [d \in DataOf["callback_model_selected"] |-> model_of_callback(d)]

callback_model_selected ==
    \E u \in Users, data \in DataOf["callback_model_selected"] :
        /\ Receive(u, "callback", "", data, "callback_model_selected")
        /\ models' = set_model(models, u, ModelOfData[data])
        /\ sent' = <<Msg("edit_settings_updated",
                         <<get_provider(providers, u), ModelOfData[data]>>)>>
        /\ calls' = <<>>
        /\ UNCHANGED <<states, providers>>

\* callback_quick_model_selected: provider = parts[2]
quick_provider(data) == Split(data)[3]
\* callback_quick_model_selected: model_name = "_".join(parts[3:])
quick_model(data) == JoinFrom(Split(data), 3)
QuickOfData ==
    [d \in DataOf["callback_quick_model_selected"] |->
        [provider |-> quick_provider(d), model |-> quick_model(d)]]

callback_quick_model_selected ==
    \E u \in Users, data \in DataOf["callback_quick_model_selected"] :
        /\ Receive(u, "callback", "", data, "callback_quick_model_selected")
        /\ providers' = set_provider(providers, u, QuickOfData[data].provider)
        /\ models' = set_model(models, u, QuickOfData[data].model)
        /\ sent' = <<Msg("edit_model_changed",
                         <<QuickOfData[data].provider, QuickOfData[data].model>>)>>
        /\ calls' = <<>>
        /\ UNCHANGED states

(***************************************************************************)
(* The two-step text wizard (src/bot_v4.py:378-468).                       *)
(***************************************************************************)
\* handle_provider_choice, line 383: the state check
provider_step_active(ss, u) == get_state(ss, u) = CHOOSING_PROVIDER

\* Variant of awaiting_state: the Claude branch sets the ChatGPT model step.
awaiting_state_swapped(text) ==
    IF text = "ChatGPT" THEN CHOOSING_MODEL
    ELSE IF text = "Claude" THEN CHOOSING_MODEL
    ELSE CHOOSING_DEEPSEEK_MODEL

\* handle_provider_choice, lines 391-408: the state set for the label chosen
awaiting_state(text) ==
    IF text = "ChatGPT" THEN CHOOSING_MODEL
    ELSE IF text = "Claude" THEN CHOOSING_CLAUDE_MODEL
    ELSE CHOOSING_DEEPSEEK_MODEL

handle_provider_choice ==
    \E u \in Users, text \in TextsOf["handle_provider_choice"] :
        /\ Receive(u, "message", text, <<>>, "handle_provider_choice")
        /\ calls' = <<>>
        /\ IF ~provider_step_active(states, u)
           THEN /\ sent' = <<Msg("use_choose_model", <<>>)>>
                /\ UNCHANGED <<models, states, providers>>
           ELSE /\ providers' = set_provider(providers, u, text)
                /\ sent' = <<Msg("choose_model_menu", <<text>>)>>
                /\ states' = set_state(states, u, awaiting_state(text))
                /\ UNCHANGED models

\* handle_model_choice, line 415: the state check
chatgpt_step_active(ss, u) == get_state(ss, u) = CHOOSING_MODEL
\* Variant of claude_step_active: any model step accepts a Claude model.
claude_step_any_model(ss, u) ==
    get_state(ss, u) \in {CHOOSING_MODEL, CHOOSING_CLAUDE_MODEL, CHOOSING_DEEPSEEK_MODEL}

\* handle_claude_model_choice, line 435
claude_step_active(ss, u) == get_state(ss, u) = CHOOSING_CLAUDE_MODEL
\* handle_deepseek_model_choice, line 455
deepseek_step_active(ss, u) == get_state(ss, u) = CHOOSING_DEEPSEEK_MODEL

\* The common body of the three model-choice handlers.
ModelChoice(u, text, active) ==
    /\ calls' = <<>>
    /\ IF ~active
       THEN /\ sent' = <<Msg("choose_provider_first", <<>>)>>
            /\ UNCHANGED <<models, states, providers>>
       ELSE /\ models' = set_model(models, u, text)
            /\ sent' = <<Msg("model_chosen", <<text>>)>>
            /\ states' = reset_state(states, u)
            /\ UNCHANGED providers

handle_model_choice ==
    \E u \in Users, text \in TextsOf["handle_model_choice"] :
        /\ Receive(u, "message", text, <<>>, "handle_model_choice")
        /\ ModelChoice(u, text, chatgpt_step_active(states, u))

handle_claude_model_choice ==
    \E u \in Users, text \in TextsOf["handle_claude_model_choice"] :
        /\ Receive(u, "message", text, <<>>, "handle_claude_model_choice")
        /\ ModelChoice(u, text, claude_step_active(states, u))

handle_deepseek_model_choice ==
    \E u \in Users, text \in TextsOf["handle_deepseek_model_choice"] :
        /\ Receive(u, "message", text, <<>>, "handle_deepseek_model_choice")
        /\ ModelChoice(u, text, deepseek_step_active(states, u))

(***************************************************************************)
(* Provider Clients (src/bot_v4.py:98-146).  The outcome of one provider   *)
(* request is an input; a client maps it to what the function returns or   *)
(* raises.  A returned string is its kind and its length.                  *)
(***************************************************************************)
RequestOutcomes ==
    {"ok", "connection_error", "timeout", "http_error", "missing_key", "empty_choices",
     "wrong_type", "null_content"}

\* Lengths of a provider's reply text.
MAX_MESSAGE_LEN == 4096
ReplyLens == {0, 1, MAX_MESSAGE_LEN, MAX_MESSAGE_LEN + 1, 9000}
\* Length of an error string built by a client.
ErrorTextLen == 60

Return(text, len) == [kind |-> "return", exc |-> "", text |-> text, len |-> len]
Raise(exc) == [kind |-> "raise", exc |-> exc, text |-> "", len |-> 0]
ReturnNone == [kind |-> "return", exc |-> "", text |-> "None", len |-> 0]

original_query_deepseek(outcome, len) ==
    IF outcome = "ok" THEN Return("reply", len)
    ELSE IF outcome \in {"connection_error", "timeout", "http_error"}
    THEN Return("deepseek_request_error", ErrorTextLen)
    ELSE IF outcome \in {"missing_key", "empty_choices"}
    THEN Return("deepseek_format_error", ErrorTextLen)
    ELSE IF outcome = "wrong_type" THEN Raise("TypeError")
    ELSE ReturnNone

original_query_chatgpt(outcome, len) ==
    IF outcome = "ok" THEN Return("reply", len)
    ELSE Return("model_request_error", ErrorTextLen)

original_query_claude(outcome, len) ==
    IF outcome = "ok" THEN Return("reply", len)
    ELSE Return("model_request_error", ErrorTextLen)

Client(name, outcome, len) ==
    IF name = "query_deepseek" THEN original_query_deepseek(outcome, len)
    ELSE IF name = "query_claude" THEN original_query_claude(outcome, len)
    ELSE original_query_chatgpt(outcome, len)

(***************************************************************************)
(* retry_on_error (src/bot_v4.py:514-529).  The runs of wrapper: the       *)
(* result, the invocations of func made (each with the outcome of its      *)
(* request and what func returned or raised) and the sleeps, for every     *)
(* choice of the request outcomes.                                         *)
(***************************************************************************)
max_retries == 3
backoff_factor == 2

\* except (requests.exceptions.RequestException, requests.exceptions.Timeout)
RetriedExceptions == {"RequestException", "ConnectionError", "Timeout", "HTTPError"}

Invocation(o, r) == [outcome |-> o, result |-> r]

RECURSIVE wrapper(_, _, _, _, _)
wrapper(name, len, retries, made, sleeps) ==
    IF retries < max_retries
    THEN UNION { LET r == Client(name, o, len)
                 IN  IF r.kind = "raise" /\ r.exc \in RetriedExceptions
                     THEN wrapper(name, len, retries + 1, Append(made, Invocation(o, r)),
                                  Append(sleeps, backoff_factor ^ retries))
                     ELSE {[result |-> r, ncalls |-> Len(made) + 1,
                            made |-> Append(made, Invocation(o, r)), sleeps |-> sleeps]}
                 : o \in RequestOutcomes }
    ELSE { [result |-> Client(name, o, len), ncalls |-> Len(made) + 1,
            made |-> Append(made, Invocation(o, Client(name, o, len))), sleeps |-> sleeps]
           : o \in RequestOutcomes }

ClientNames == {"query_deepseek", "query_chatgpt", "query_claude"}

\* query_* = retry_on_error(original_query_*), lines 537-539: the runs of a
\* wrapped client for a reply of each length.
WrappedRuns == [c \in ClientNames |-> [len \in ReplyLens |-> wrapper(c, len, 0, <<>>, <<>>)]]

(***************************************************************************)
(* reply_message (src/bot_v4.py:471-511).                                  *)
(***************************************************************************)
\* Variant of dispatch_suspended: only the provider step suspends dispatch.
dispatch_suspended_provider_only(ss, u) == get_state(ss, u) = CHOOSING_PROVIDER

\* line 479: the wizard check
dispatch_suspended(ss, u) == get_state(ss, u) # NORMAL

\* lines 493-498: the client for a stored provider
\* Variant of route: the DeepSeek and ChatGPT branches are exchanged.
route_exchanged(provider) ==
    IF provider = "DeepSeek" THEN "query_chatgpt"
    ELSE IF provider = "Claude" THEN "query_claude"
    ELSE "query_deepseek"

route(provider) ==
    IF provider = "DeepSeek" THEN "query_deepseek"
    ELSE IF provider = "Claude" THEN "query_claude"
    ELSE "query_chatgpt"

Min(a, b) == IF a < b THEN a ELSE b

\* Variant of Chunks: only the full slices are sent, the rest of the reply is
\* dropped.
ChunksFullOnly(len) ==
    IF len > MAX_MESSAGE_LEN
    THEN [k \in 1..(len \div MAX_MESSAGE_LEN) |->
             Chunk((k - 1) * MAX_MESSAGE_LEN, Min(k * MAX_MESSAGE_LEN, len))]
    ELSE <<Chunk(0, len)>>

\* lines 501-505: the slices sent for a reply of length len
Chunks(len) ==
    IF len > MAX_MESSAGE_LEN
    THEN [k \in 1..((len + MAX_MESSAGE_LEN - 1) \div MAX_MESSAGE_LEN) |->
             Chunk((k - 1) * MAX_MESSAGE_LEN, Min(k * MAX_MESSAGE_LEN, len))]
    ELSE <<Chunk(0, len)>>

\* Variant of Delivery: reply_message without its except branch, nothing is
\* sent when the call raised.
DeliveryUncaught(run) ==
    IF run.result.kind = "raise" \/ run.result.text = "None" \/ run.result.len = 0
    THEN <<>>
    ELSE [k \in DOMAIN Chunks(run.result.len) |->
             [Chunks(run.result.len)[k] EXCEPT !.arg = <<run.result.text>>]]

\* What reply_message sends after the typing action for a run of the wrapped
\* client: the chunks of the string returned, or the generic message of the
\* except branch when the call raised, when len(reply) raised on None, or when
\* bot.send_message raised on an empty text.
Delivery(run) ==
    IF run.result.kind = "raise" \/ run.result.text = "None" \/ run.result.len = 0
    THEN <<Msg("try_later", <<>>)>>
    ELSE [k \in DOMAIN Chunks(run.result.len) |->
             [Chunks(run.result.len)[k] EXCEPT !.arg = <<run.result.text>>]]

reply_message ==
    \E u \in Users, text \in TextsOf["reply_message"] :
        /\ Receive(u, "message", text, <<>>, "reply_message")
        /\ UNCHANGED <<models, states, providers>>
        /\ IF dispatch_suspended(states, u)
           THEN /\ sent' = <<Msg("finish_selection", <<>>)>>
                /\ calls' = <<>>
           ELSE \E len \in ReplyLens :
                \E run \in WrappedRuns[route(get_provider(providers, u))][len] :
                    /\ calls' = [i \in 1..run.ncalls |->
                                    [client |-> route(get_provider(providers, u)),
                                     text |-> text,
                                     model |-> get_model(models, u),
                                     outcome |-> run.made[i].outcome,
                                     result |-> run.made[i].result]]
                    /\ sent' = <<Msg("typing", <<>>)>> \o Delivery(run)

Next ==
    \/ clear_keyboard
    \/ quick_model_selection
    \/ start_message
    \/ help_message
    \/ show_current_model
    \/ choose_model
    \/ callback_select_provider
    \/ callback_provider_selected
    \/ callback_model_selected
    \/ callback_quick_model_selected
    \/ handle_provider_choice
    \/ handle_model_choice
    \/ handle_claude_model_choice
    \/ handle_deepseek_model_choice
    \/ reply_message

Spec == Init /\ [][Next]_vars

SpecShared == InitShared /\ [][Next]_vars

(***************************************************************************)
(* Vocabulary of the properties.                                           *)
(***************************************************************************)
\* The wizard state in which a model of provider p is awaited.
ModelStepOf(p) ==
    IF p = "ChatGPT" THEN CHOOSING_MODEL
    ELSE IF p = "Claude" THEN CHOOSING_CLAUDE_MODEL
    ELSE CHOOSING_DEEPSEEK_MODEL

ProviderNames == Range(ProviderLabels)
ModelSteps == {CHOOSING_MODEL, CHOOSING_CLAUDE_MODEL, CHOOSING_DEEPSEEK_MODEL}
AllModelNames == UNION {ProviderModels(p) : p \in ProviderNames}

\* The event handled last is a text message of user u.
IsTextOf(e, u) == e.kind = "message" /\ e.user = u
\* The event handled last is a callback of user u.
IsCallbackOf(e, u) == e.kind = "callback" /\ e.user = u
\* A free-text chat message: no command, no provider label, no model name.
IsFreeText(text) ==
    /\ CommandOf[text] = ""
    /\ text \notin ProviderNames
    /\ text \notin AllModelNames

\* The quick-select data carrying the pair (p, m).
QuickData(p, m) == <<"quick", "_", "model", "_", p, "_", m>>

StoreUnchanged == UNCHANGED <<models, states, providers>>

\* The getters return for user u after the step what they returned before.
SelectionUnchanged(u) ==
    /\ get_provider(providers', u) = get_provider(providers, u)
    /\ get_model(models', u) = get_model(models, u)
    /\ get_state(states', u) = get_state(states, u)

CorrectiveTags == {"use_choose_model", "choose_provider_first", "finish_selection"}

(***************************************************************************)
(* C1.  A free-text chat message received while the wizard of its sender   *)
(* is active (get_state /= NORMAL) makes no Provider Client call and is    *)
(* answered with the prompt to finish the selection.                       *)
(***************************************************************************)
C1_NoDispatchWhileWizardActive ==
    \A u \in Users :
        (IsTextOf(ev, u) /\ IsFreeText(ev.text) /\ ev.pre # NORMAL)
            => /\ calls = <<>>
               /\ sent = <<Msg("finish_selection", <<>>)>>

\* A free text arrived while a Claude model was awaited and was answered.
C1_Witness ==
    \E u \in Users :
        /\ IsTextOf(ev, u) /\ IsFreeText(ev.text)
        /\ ev.pre = CHOOSING_CLAUDE_MODEL
        /\ sent = <<Msg("finish_selection", <<>>)>>

(***************************************************************************)
(* C2.  In every reachable state the stored model of every user belongs    *)
(* to the model list of the user's stored provider.                        *)
(***************************************************************************)
C2_ModelBelongsToProvider ==
    \A u \in Users : get_model(models, u) \in ProviderModels(get_provider(providers, u))

(***************************************************************************)
(* C3.  When a model choice m passes the state check of its text handler,  *)
(* then afterwards the state is NORMAL, the model is m and the provider is *)
(* the one whose model list contains m.                                    *)
(***************************************************************************)
ModelChoiceAccepted(e) ==
    \/ e.handler = "handle_model_choice" /\ e.pre = CHOOSING_MODEL
    \/ e.handler = "handle_claude_model_choice" /\ e.pre = CHOOSING_CLAUDE_MODEL
    \/ e.handler = "handle_deepseek_model_choice" /\ e.pre = CHOOSING_DEEPSEEK_MODEL

C3_AcceptedModelCompletesSelection ==
    \A u \in Users :
        (IsTextOf(ev, u) /\ ModelChoiceAccepted(ev))
            => /\ get_state(states, u) = NORMAL
               /\ get_model(models, u) = ev.text
               /\ ev.text \in ProviderModels(get_provider(providers, u))

(***************************************************************************)
(* C4.  A quick-select event carrying a valid pair (provider, model)       *)
(* leaves the sender with that provider, that model and state NORMAL,      *)
(* whatever the wizard state it arrives in.                                *)
(***************************************************************************)
C4_QuickSelectCompletes ==
    \A u \in Users : \A p \in ProviderNames : \A m \in ProviderModels(p) :
        (IsCallbackOf(ev, u) /\ ev.data = QuickData(p, m))
            => /\ get_provider(providers, u) = p
               /\ get_model(models, u) = m
               /\ get_state(states, u) = NORMAL

(***************************************************************************)
(* C5.  A quick-select event whose pair is not valid (unknown provider, or *)
(* a model outside the provider's list) is rejected: the sender's          *)
(* provider, model and state are what they were.                           *)
(***************************************************************************)
InvalidQuickData(data) ==
    /\ StartsWith(data, <<"quick", "_", "model", "_">>)
    /\ ~ \E p \in ProviderNames : \E m \in ProviderModels(p) : data = QuickData(p, m)

C5_InvalidQuickSelectRejected ==
    [][\A u \in Users :
          (IsCallbackOf(ev', u) /\ InvalidQuickData(ev'.data)) => SelectionUnchanged(u)
      ]_vars

(***************************************************************************)
(* C6.  Menu responses are accepted only in the matching wizard step: a    *)
(* provider choice (label text or provider_* button) changes the provider  *)
(* only in state CHOOSING_PROVIDER, and a model choice (model-name text or *)
(* model button) changes the model only in the model step of the provider  *)
(* that lists the model.                                                   *)
(***************************************************************************)
IsProviderChoice(e) ==
    \/ e.kind = "message" /\ e.text \in ProviderNames
    \/ e.kind = "callback" /\ e.data \in ProviderButtons

\* The model named by a model choice, "" when e is none.
ChosenModel(e) ==
    IF e.kind = "message" /\ e.text \in AllModelNames THEN e.text
    ELSE IF e.kind = "callback" /\ e.data \in AllModelButtons THEN e.data[5]
    ELSE ""

IsModelChoice(e) == ChosenModel(e) # ""

C6_MenuResponsesOnlyInMatchingStep ==
    [][\A u \in Users :
          /\ ( /\ ev'.user = u /\ IsProviderChoice(ev')
               /\ get_provider(providers', u) # get_provider(providers, u) )
                => get_state(states, u) = CHOOSING_PROVIDER
          /\ ( /\ ev'.user = u /\ IsModelChoice(ev')
               /\ get_model(models', u) # get_model(models, u) )
                => \E p \in ProviderNames :
                       /\ ChosenModel(ev') \in ProviderModels(p)
                       /\ get_state(states, u) = ModelStepOf(p)
      ]_vars

(***************************************************************************)
(* C7.  In state CHOOSING_PROVIDER a model-only choice value (model-name   *)
(* text or model button) leaves provider, model and state unchanged.       *)
(***************************************************************************)
C7_ModelChoiceIgnoredInProviderStep ==
    [][\A u \in Users :
          ( /\ ev'.user = u /\ IsModelChoice(ev')
            /\ get_state(states, u) = CHOOSING_PROVIDER )
            => SelectionUnchanged(u)
      ]_vars

(***************************************************************************)
(* C8.  While a model of provider p is awaited, a text that is no command  *)
(* and not in p's model list (another provider's model, a provider label,  *)
(* free text) is answered with one corrective message, makes no provider   *)
(* call and leaves the store unchanged.                                    *)
(***************************************************************************)
C8_WrongTextInModelStepRejected ==
    [][\A u \in Users : \A p \in ProviderNames :
          ( /\ IsTextOf(ev', u)
            /\ get_state(states, u) = ModelStepOf(p)
            /\ CommandOf[ev'.text] = ""
            /\ ev'.text \notin ProviderModels(p) )
            => /\ StoreUnchanged
               /\ calls' = <<>>
               /\ Len(sent') = 1
               /\ sent'[1].tag \in CorrectiveTags
      ]_vars

\* A ChatGPT model name arrived while a Claude model was awaited; the Claude
\* step is still pending.
C8_Witness ==
    \E u \in Users :
        /\ IsTextOf(ev, u)
        /\ ev.text \in Range(AVAILABLE_CHATGPT_MODELS)
        /\ ev.pre = CHOOSING_CLAUDE_MODEL
        /\ get_state(states, u) = CHOOSING_CLAUDE_MODEL
        /\ sent = <<Msg("choose_provider_first", <<>>)>>

(***************************************************************************)
(* C9.  In state CHOOSING_PROVIDER a provider label p sent as text sets    *)
(* the provider to p and the state to the model step of p, and leaves the  *)
(* stored model unchanged.                                                 *)
(***************************************************************************)
C9_ProviderLabelOpensModelStep ==
    [][\A u \in Users : \A p \in ProviderNames :
          ( /\ IsTextOf(ev', u) /\ ev'.text = p
            /\ get_state(states, u) = CHOOSING_PROVIDER )
            => /\ get_provider(providers', u) = p
               /\ get_state(states', u) = ModelStepOf(p)
               /\ models' = models
      ]_vars

\* The label Claude was accepted and the Claude model step is open.
C9_Witness ==
    \E u \in Users :
        /\ IsTextOf(ev, u) /\ ev.text = "Claude"
        /\ ev.pre = CHOOSING_PROVIDER
        /\ get_provider(providers, u) = "Claude"
        /\ get_state(states, u) = CHOOSING_CLAUDE_MODEL

(***************************************************************************)
(* C10.  /choose_model sets the sender's state to CHOOSING_PROVIDER from   *)
(* any state and leaves providers and models unchanged; the wizard state   *)
(* of a user changes only along NORMAL -> CHOOSING_PROVIDER -> a model     *)
(* step -> NORMAL, or by that command.                                     *)
(***************************************************************************)
WizardPath ==
    {<<NORMAL, CHOOSING_PROVIDER>>}
        \cup {<<CHOOSING_PROVIDER, s>> : s \in ModelSteps}
        \cup {<<s, NORMAL>> : s \in ModelSteps}

IsEntryCommand(e, u) == IsTextOf(e, u) /\ CommandOf[e.text] = "choose_model"

C10_EntryCommandAndWizardPath ==
    [][\A u \in Users :
          /\ IsEntryCommand(ev', u)
                => /\ get_state(states', u) = CHOOSING_PROVIDER
                   /\ models' = models
                   /\ providers' = providers
          /\ get_state(states', u) # get_state(states, u)
                => \/ IsEntryCommand(ev', u) /\ get_state(states', u) = CHOOSING_PROVIDER
                   \/ <<get_state(states, u), get_state(states', u)>> \in WizardPath
      ]_vars

\* /choose_model arrived while a ChatGPT model was awaited: the provider
\* step is open again and the provider chosen before is kept.
C10_Witness ==
    \E u \in Users :
        /\ IsEntryCommand(ev, u)
        /\ ev.pre = CHOOSING_MODEL
        /\ get_state(states, u) = CHOOSING_PROVIDER
        /\ get_provider(providers, u) = "ChatGPT"

(***************************************************************************)
(* C11  A user for whom no set_provider / set_model / set_state was ever   *)
(* performed has no record; for such a user get_provider returns           *)
(* "DeepSeek", get_model returns "deepseek-reasoner" and get_state returns *)
(* NORMAL.  The getters create and change no record: /current_model, which *)
(* only reads, reports these defaults and leaves the three dicts as they   *)
(* were.                                                                   *)
(***************************************************************************)
DefaultsWithoutRecord(ps, ms, ss, u) ==
    /\ u \notin DOMAIN ps => get_provider(ps, u) = "DeepSeek"
    /\ u \notin DOMAIN ms => get_model(ms, u) = "deepseek-reasoner"
    /\ u \notin DOMAIN ss => get_state(ss, u) = "normal"

C11_DefaultsForUntouchedUser ==
    [][\A u \in Users :
          /\ DefaultsWithoutRecord(providers, models, states, u)
          /\ DefaultsWithoutRecord(providers', models', states', u)
          /\ (ev'.handler = "show_current_model" /\ ev'.user = u)
                => /\ StoreUnchanged
                   /\ u \notin DOMAIN providers => sent'[1].arg[1] = "DeepSeek"
                   /\ u \notin DOMAIN models => sent'[1].arg[2] = "deepseek-reasoner"
      ]_vars

\* A user without any record asked for the current settings and was shown the
\* defaults; the user still has no record.
C11_Witness ==
    \E u \in Users :
        /\ ev.handler = "show_current_model" /\ ev.user = u
        /\ u \notin (DOMAIN providers) \cup (DOMAIN models) \cup (DOMAIN states)
        /\ sent = <<Msg("current_settings", <<"DeepSeek", "deepseek-reasoner">>)>>

(***************************************************************************)
(* UserData on its own (src/bot_v4.py:60-93): the methods that write are   *)
(* applied to the store in every order, with every argument of a small     *)
(* set, for both users.                                                    *)
(***************************************************************************)
MaxStoreOps == 3

StoredModels == {"gpt-4o", "deepseek-chat"}
StoredStates ==
    {NORMAL, CHOOSING_PROVIDER, CHOOSING_MODEL, CHOOSING_CLAUDE_MODEL,
     CHOOSING_DEEPSEEK_MODEL}

InitStore ==
    /\ EmptyStore
    /\ senders = Users
    /\ budget = MaxStoreOps
    /\ unit = Running("UserData")

\* Bookkeeping of a method call: the method and its argument are recorded with
\* what get_state returned before the call.
Apply(u, method, arg) ==
    /\ unit.pc = "UserData"
    /\ budget > 0
    /\ budget' = budget - 1
    /\ ev' = [user |-> u, kind |-> "method", text |-> arg, data |-> <<>>,
              handler |-> method, pre |-> get_state(states, u)]
    /\ UNCHANGED <<calls, sent, senders, unit>>

UserData_set_model ==
    \E u \in Users, m \in StoredModels :
        /\ Apply(u, "set_model", m)
        /\ models' = set_model(models, u, m)
        /\ UNCHANGED <<states, providers>>

UserData_set_state ==
    \E u \in Users, s \in StoredStates :
        /\ Apply(u, "set_state", s)
        /\ states' = set_state(states, u, s)
        /\ UNCHANGED <<models, providers>>

UserData_reset_state ==
    \E u \in Users :
        /\ Apply(u, "reset_state", "")
        /\ states' = reset_state(states, u)
        /\ UNCHANGED <<models, providers>>

UserData_set_provider ==
    \E u \in Users, p \in ProviderNames :
        /\ Apply(u, "set_provider", p)
        /\ providers' = set_provider(providers, u, p)
        /\ UNCHANGED <<models, states>>

NextStore ==
    \/ UserData_set_model
    \/ UserData_set_state
    \/ UserData_reset_state
    \/ UserData_set_provider

SpecStore == InitStore /\ [][NextStore]_vars

(***************************************************************************)
(* C12  reset_state is idempotent.  After reset_state(u), get_state(u) is  *)
(* NORMAL whatever the state was before, the absence of a record included; *)
(* resetting again leaves the states dict as it is, and a reset that       *)
(* follows a reset of the same user changes nothing at all.  Provider and  *)
(* model records, and the states of the other users, are not touched.      *)
(***************************************************************************)
C12_ResetStateIdempotent ==
    [][\A u \in Users :
          (ev'.handler = "reset_state" /\ ev'.user = u)
             => /\ get_state(states', u) = NORMAL
                /\ reset_state(states', u) = states'
                /\ (ev.handler = "reset_state" /\ ev.user = u) => states' = states
                /\ models' = models
                /\ providers' = providers
                /\ \A v \in Users \ {u} :
                      /\ (v \in DOMAIN states') = (v \in DOMAIN states)
                      /\ get_state(states', v) = get_state(states, v)
      ]_vars

\* A user who was in the Claude model step, with a model stored, was reset.
C12_Witness ==
    \E u \in Users :
        /\ ev.handler = "reset_state" /\ ev.user = u
        /\ ev.pre = CHOOSING_CLAUDE_MODEL
        /\ get_state(states, u) = NORMAL
        /\ u \in DOMAIN models

\* A user without a state record was reset and has no record still.
C12_WitnessNoRecord ==
    \E u \in Users :
        /\ ev.handler = "reset_state" /\ ev.user = u
        /\ u \notin DOMAIN states

(***************************************************************************)
(* retry_on_error on its own (src/bot_v4.py:514-529), step by step, around *)
(* a stub func.  The script says how each invocation of the stub ends: it  *)
(* returns, or it raises an exception of the class named.  ConnectionError,*)
(* Timeout and HTTPError are requests exceptions, subclasses of            *)
(* RequestException; KeyError is not.                                      *)
(***************************************************************************)
StubBehaviours == {"ok", "ConnectionError", "Timeout", "HTTPError", "KeyError"}
NetworkErrors == {"ConnectionError", "Timeout"}

Stub(behaviour) == IF behaviour = "ok" THEN Return("reply", 1) ELSE Raise(behaviour)

\* Variant of caught: only timeouts are retried.
caught_timeout_only(exc) == exc = "Timeout"

\* Variant of caught: a bare except, every exception is retried.
caught_everything(exc) == TRUE

\* line 522: except (requests.exceptions.RequestException,
\*                   requests.exceptions.Timeout)
caught(exc) == exc \in RetriedExceptions

\* Variant of wait_time: the delay grows linearly.
wait_time_linear(retries) == backoff_factor * retries

\* line 523: wait_time = backoff_factor ** retries
wait_time(retries) == backoff_factor ^ retries

Scripts == [1..(max_retries + 1) -> StubBehaviours]

InitRetry ==
    /\ EmptyStore
    /\ senders = {}
    /\ budget = 0
    /\ \E script \in Scripts :
          unit = [pc |-> "loop", script |-> script, retries |-> 0, invoked |-> 0,
                  sleeps |-> <<>>, result |-> NoResult, len |-> 0]

\* What an invocation of func leaves behind: one more invocation, and the
\* wrapper returns, sleeps before the next attempt, or lets the exception out.
Invoke(guarded) ==
    LET r == Stub(unit.script[unit.invoked + 1])
    IN  /\ unit' = [unit EXCEPT
                      !.invoked = @ + 1,
                      !.pc = IF r.kind = "return" THEN "returned"
                             ELSE IF guarded /\ caught(r.exc) THEN "sleep"
                             ELSE "raised",
                      !.result = IF r.kind = "raise" /\ guarded /\ caught(r.exc)
                                 THEN @ ELSE r]
        /\ UNCHANGED <<models, states, providers, ev, calls, sent, senders, budget>>

\* lines 518-521: while retries < max_retries: try: return func(...)
wrapper_guarded_call ==
    /\ unit.pc = "loop"
    /\ unit.retries < max_retries
    /\ Invoke(TRUE)

\* lines 522-526: the except branch
wrapper_sleep ==
    /\ unit.pc = "sleep"
    /\ unit' = [unit EXCEPT !.sleeps = Append(@, wait_time(unit.retries)),
                            !.retries = @ + 1,
                            !.pc = "loop"]
    /\ UNCHANGED <<models, states, providers, ev, calls, sent, senders, budget>>

\* line 528: the last attempt, outside any try
wrapper_final_call ==
    /\ unit.pc = "loop"
    /\ ~(unit.retries < max_retries)
    /\ Invoke(FALSE)

NextRetry ==
    \/ wrapper_guarded_call
    \/ wrapper_sleep
    \/ wrapper_final_call

\* The wrapper is sequential code: func returns or raises, time.sleep returns.
SpecRetry == InitRetry /\ [][NextRetry]_vars /\ WF_vars(NextRetry)

WrapperDone == unit.pc \in {"returned", "raised"}

(***************************************************************************)
(* C13  With max_retries = 3, a func that raises a network-class error on  *)
(* its first two invocations and returns on the third: the wrapper returns *)
(* what func returned, and func has been invoked exactly three times.      *)
(***************************************************************************)
FailsTwiceThenSucceeds ==
    /\ unit.script[1] \in NetworkErrors
    /\ unit.script[2] \in NetworkErrors
    /\ unit.script[3] = "ok"

C13_SucceedsOnThirdAttempt ==
    (unit.pc \in {"loop", "sleep", "returned", "raised"} /\ FailsTwiceThenSucceeds)
        => /\ unit.invoked <= 3
           /\ unit.pc # "raised"
           /\ WrapperDone => /\ unit.result = Return("reply", 1)
                             /\ unit.invoked = 3

\* The wrapper returned the reply of the third invocation after a connection
\* error and a timeout.
C13_Witness ==
    /\ unit.pc = "returned"
    /\ unit.script[1] = "ConnectionError" /\ unit.script[2] = "Timeout"
    /\ unit.script[3] = "ok"
    /\ unit.invoked = 3
    /\ unit.result = Return("reply", 1)

\* func raises an exception of class exc at every invocation.
AlwaysRaises(exc) == \A i \in DOMAIN unit.script : unit.script[i] = exc

C14_WitnessRetried ==
    /\ AlwaysRaises("HTTPError")
    /\ unit.pc = "raised"
    /\ unit.invoked = max_retries + 1

(***************************************************************************)
(* C15  retry_on_error terminates.  With max_retries = 3, backoff_factor = *)
(* 2 and a func that raises a network-class error at every invocation, the *)
(* wrapper makes three guarded invocations, sleeps 1, 2 and 4 seconds      *)
(* after them, makes one final invocation outside the try, four in all,    *)
(* and the exception of the final invocation leaves the wrapper as it is.  *)
(***************************************************************************)
AlwaysNetworkError ==
    /\ unit.pc \in {"loop", "sleep", "returned", "raised"}
    /\ \A i \in DOMAIN unit.script : unit.script[i] \in NetworkErrors

ExhaustedAndRaised ==
    /\ unit.pc = "raised"
    /\ unit.invoked = 4
    /\ unit.retries = 3
    /\ unit.sleeps = <<1, 2, 4>>
    /\ unit.result = Raise(unit.script[4])

C15_RetryTerminates ==
    /\ [](AlwaysNetworkError =>
             /\ unit.invoked <= 4
             /\ unit.pc # "returned"
             /\ \A i \in DOMAIN unit.sleeps : unit.sleeps[i] = 2 ^ (i - 1)
             /\ unit.pc = "raised" => ExhaustedAndRaised)
    /\ (AlwaysNetworkError ~> ExhaustedAndRaised)

\* Four timeouts: the wrapper slept 1, 2 and 4 seconds and let the timeout of
\* the final invocation out.
C15_Witness ==
    /\ AlwaysRaises("Timeout")
    /\ ExhaustedAndRaised

(***************************************************************************)
(* C16  In a dispatch, a transient network failure of the provider request *)
(* is retried: when the request of the first invocation of the client ends *)
(* in a connection error or a timeout, the client is invoked again, and    *)
(* the user is not sent the error string of the failed attempt.            *)
(***************************************************************************)
TransientFailures == {"connection_error", "timeout"}

C16_TransientFailureRetried ==
    \A u \in Users :
        (ev.handler = "reply_message" /\ ev.user = u /\ calls # <<>>
         /\ calls[1].outcome \in TransientFailures)
            => /\ Len(calls) > 1
               /\ \A k \in DOMAIN sent :
                     sent[k].arg # <<"deepseek_request_error">>
                     /\ sent[k].arg # <<"model_request_error">>

(***************************************************************************)
(* C17  No provider client raises past its boundary: whatever the outcome  *)
(* of the request (connection failure, timeout, non-2xx status, missing    *)
(* key, empty choices list, wrong JSON type, null content), every          *)
(* invocation of an unwrapped client returns a string.                     *)
(***************************************************************************)
C17_ClientsReturnStrings ==
    \A i \in DOMAIN calls :
        /\ calls[i].result.kind = "return"
        /\ calls[i].result.text # "None"

(***************************************************************************)
(* The chunking of reply_message on its own (src/bot_v4.py:500-505), for   *)
(* every non-empty reply up to MaxReplyLen characters.  A message sent is  *)
(* the slice reply[lo:hi].                                                 *)
(***************************************************************************)
MaxReplyLen == 12300

InitChunk ==
    /\ EmptyStore
    /\ senders = {}
    /\ budget = 0
    /\ \E len \in 1..MaxReplyLen :
          unit = [Running("chunking") EXCEPT !.pc = "reply", !.len = len]

send_chunks ==
    /\ unit.pc = "reply"
    /\ sent' = Chunks(unit.len)
    /\ unit' = [unit EXCEPT !.pc = "sent"]
    /\ UNCHANGED <<models, states, providers, ev, calls, senders, budget>>

NextChunk == send_chunks

SpecChunk == InitChunk /\ [][NextChunk]_vars

(***************************************************************************)
(* C18  Chunking loses and reorders nothing: a non-empty reply of length L *)
(* is sent as ceil(L / 4096) messages, each of 1 to 4096 characters, all   *)
(* but the last of exactly 4096; the first starts at the first character,  *)
(* each next one starts where the one before ended and the last ends at    *)
(* L, so the messages concatenated in order are the reply.                 *)
(***************************************************************************)
SliceLen(m) == m.hi - m.lo

C18_ChunkingPreservesReply ==
    unit.pc = "sent" =>
        LET L == unit.len
            n == Len(sent)
        IN  /\ n >= 1
            /\ 4096 * (n - 1) < L /\ L <= 4096 * n
            /\ \A k \in 1..n :
                  /\ sent[k].tag = "reply"
                  /\ SliceLen(sent[k]) >= 1 /\ SliceLen(sent[k]) <= 4096
                  /\ k < n => SliceLen(sent[k]) = 4096
            /\ sent[1].lo = 0
            /\ \A k \in 1..(n - 1) : sent[k + 1].lo = sent[k].hi
            /\ sent[n].hi = L
            /\ L <= 4096 => n = 1

\* A reply of 9000 characters went out as 4096, 4096 and 808 characters.
C18_Witness ==
    /\ unit.pc = "sent"
    /\ unit.len = 9000
    /\ Len(sent) = 3
    /\ SliceLen(sent[1]) = 4096 /\ SliceLen(sent[2]) = 4096 /\ SliceLen(sent[3]) = 808

(***************************************************************************)
(* bot_v2 (src/bot_v2.py): two commands and gpt_reply, which sends every   *)
(* other text to gpt-4o-mini.  It keeps no store.  Telegram refuses an     *)
(* empty text and a text of more than 4096 characters: bot.send_message    *)
(* raises on them.                                                         *)
(***************************************************************************)
V2MessageHandler(text) ==
    IF extract_command(text) = "start" THEN "start_message"
    ELSE IF extract_command(text) = "help" THEN "help_message"
    ELSE "gpt_reply"

V2TextsOf ==
    [h \in {"start_message", "help_message", "gpt_reply"} |->
        {t \in Texts : V2MessageHandler(t) = h}]

ReceiveV2(u, text, handler) ==
    /\ unit.pc = "bot_v2"
    /\ u \in senders
    /\ budget > 0
    /\ budget' = budget - 1
    /\ ev' = [user |-> u, kind |-> "message", text |-> text, data |-> <<>>,
              handler |-> handler, pre |-> NORMAL]
    /\ UNCHANGED <<models, states, providers, senders, unit>>

bot_v2_start_message ==
    \E u \in Users, text \in V2TextsOf["start_message"] :
        /\ ReceiveV2(u, text, "start_message")
        /\ sent' = <<Msg("welcome", <<>>)>>
        /\ calls' = <<>>

bot_v2_help_message ==
    \E u \in Users, text \in V2TextsOf["help_message"] :
        /\ ReceiveV2(u, text, "help_message")
        /\ sent' = <<Msg("help", <<>>)>>
        /\ calls' = <<>>

\* lines 46-51: the completion and reply = ...content.strip()
v2_completion(outcome, len) ==
    IF outcome = "ok" THEN Return("reply", len) ELSE Raise("Exception")

\* lines 52-55: the reply is sent whole; when the completion or the send
\* raised, the except branch sends the generic message.
V2Delivery(r) ==
    IF r.kind = "return" /\ r.len >= 1 /\ r.len <= MAX_MESSAGE_LEN
    THEN <<[Chunk(0, r.len) EXCEPT !.arg = <<r.text>>]>>
    ELSE <<Msg("try_later", <<>>)>>

gpt_reply ==
    \E u \in Users, text \in V2TextsOf["gpt_reply"] :
        /\ ReceiveV2(u, text, "gpt_reply")
        /\ \E outcome \in RequestOutcomes, len \in ReplyLens :
              LET r == v2_completion(outcome, len)
              IN  /\ calls' = <<[client |-> "openai", text |-> text,
                                 model |-> "gpt-4o-mini", outcome |-> outcome,
                                 result |-> r]>>
                  /\ sent' = V2Delivery(r)

NextV2 ==
    \/ bot_v2_start_message
    \/ bot_v2_help_message
    \/ gpt_reply

\* Either bot runs, with one user talking to it.
InitBots ==
    /\ EmptyStore
    /\ senders = {1}
    /\ budget = MaxEvents
    /\ unit \in {Running("bot_v4"), Running("bot_v2")}

NextBots ==
    \/ Next
    \/ NextV2

SpecBots == InitBots /\ [][NextBots]_vars

(***************************************************************************)
(* C19  Every inbound text message is answered: whatever the wizard state  *)
(* and whatever the provider call did, the handler sends at least one text *)
(* message for it.  When the provider call raised, reply_message (bot_v4)  *)
(* and gpt_reply (bot_v2) do not let the exception out: the answer is the  *)
(* generic try-again-later message.                                        *)
(***************************************************************************)
IsTextMessage(m) == m.tag # "typing"

C19_EveryTextAnswered ==
    ev.kind = "message" =>
        /\ \E k \in DOMAIN sent : IsTextMessage(sent[k])
        /\ (calls # <<>> /\ calls[Len(calls)].result.kind = "raise")
              => sent[Len(sent)] = Msg("try_later", <<>>)

\* bot_v4: query_deepseek raised a TypeError and the user was sent the generic
\* message after the typing action.
C19_Witness ==
    /\ ev.handler = "reply_message"
    /\ unit.pc = "bot_v4"
    /\ Len(calls) = 1
    /\ calls[1].result = Raise("TypeError")
    /\ sent = <<Msg("typing", <<>>), Msg("try_later", <<>>)>>

\* bot_v2: the completion raised and the user was sent the generic message.
C19_WitnessV2 ==
    /\ ev.handler = "gpt_reply"
    /\ unit.pc = "bot_v2"
    /\ calls[1].result.kind = "raise"
    /\ sent = <<Msg("try_later", <<>>)>>

(***************************************************************************)
(* C20  Routing.  For a chat message of user u in state NORMAL exactly one *)
(* provider client is invoked: the one of get_provider(u) (DeepSeek,       *)
(* Claude, ChatGPT), with the text of the message and get_model(u).  For a *)
(* user without any selection it is the DeepSeek client with               *)
(* deepseek-reasoner.  The string the client returns is delivered          *)
(* unchanged after the typing action: whole when it has at most 4096       *)
(* characters, and in slices that cover it otherwise.                      *)
(***************************************************************************)
ClientOfProvider ==
    [p \in ProviderNames |->
        IF p = "DeepSeek" THEN "query_deepseek"
        ELSE IF p = "Claude" THEN "query_claude"
        ELSE "query_chatgpt"]

\* The client returned a string that Telegram accepts.
ReturnedText(r) == r.kind = "return" /\ r.text # "None" /\ r.len >= 1

C20_DispatchRouting ==
    \A u \in Users :
        (IsTextOf(ev, u) /\ IsFreeText(ev.text) /\ ev.pre = NORMAL)
            => /\ ev.handler = "reply_message"
               /\ Len(calls) = 1
               /\ get_provider(providers, u) \in ProviderNames
                     => calls[1].client = ClientOfProvider[get_provider(providers, u)]
               /\ calls[1].text = ev.text
               /\ calls[1].model = get_model(models, u)
               /\ (u \notin (DOMAIN providers) \cup (DOMAIN models))
                     => /\ calls[1].client = "query_deepseek"
                        /\ calls[1].model = "deepseek-reasoner"
               /\ ReturnedText(calls[1].result)
                     => /\ sent[1] = Msg("typing", <<>>)
                        /\ \A k \in 2..Len(sent) :
                              /\ sent[k].tag = "reply"
                              /\ sent[k].arg = <<calls[1].result.text>>
                        /\ sent[2].lo = 0
                        /\ \A k \in 2..(Len(sent) - 1) : sent[k + 1].lo = sent[k].hi
                        /\ sent[Len(sent)].hi = calls[1].result.len
                        /\ calls[1].result.len <= 4096 => Len(sent) = 2

\* A user without any selection sent a chat message: query_deepseek was called
\* once with deepseek-reasoner and its reply was delivered as one message.
C20_Witness ==
    \E u \in Users :
        /\ IsTextOf(ev, u) /\ IsFreeText(ev.text) /\ ev.pre = NORMAL
        /\ u \notin (DOMAIN providers) \cup (DOMAIN models)
        /\ Len(calls) = 1
        /\ calls[1].client = "query_deepseek"
        /\ calls[1].model = "deepseek-reasoner"
        /\ calls[1].result = Return("reply", 1)
        /\ sent = <<Msg("typing", <<>>), [Chunk(0, 1) EXCEPT !.arg = <<"reply">>]>>

(***************************************************************************)
(* C21  Frame of the chat messages and of the commands outside the wizard: *)
(* handling a message that reply_message is run for, or one of the         *)
(* commands /start, /help, /current_model, /quick_model, /clear_keyboard,  *)
(* leaves the provider, model and state records of every user as they      *)
(* were.  In particular /clear_keyboard leaves an active wizard active.    *)
(***************************************************************************)
FrameCommands == {"start", "help", "current_model", "quick_model", "clear_keyboard"}

C22_StateAgreesWithProvider ==
    \A u \in Users :
        /\ get_state(states, u) = "choosing_chatgpt_model"
              => get_provider(providers, u) = "ChatGPT"
        /\ get_state(states, u) = "choosing_claude_model"
              => get_provider(providers, u) = "Claude"
        /\ get_state(states, u) = "choosing_deepseek_model"
              => get_provider(providers, u) = "DeepSeek"

(***************************************************************************)
(* C23  Per-user isolation: an event of user u writes only u's entries of  *)
(* the store.  For every other user v the records are the same before and  *)
(* after the event, and so are get_provider(v), get_model(v) and           *)
(* get_state(v).                                                           *)
(***************************************************************************)
RecordUnchanged(d1, d2, v) ==
    /\ (v \in DOMAIN d2) = (v \in DOMAIN d1)
    /\ v \in DOMAIN d1 => d2[v] = d1[v]

C23_PerUserIsolation ==
    [][\A u \in Users :
          ev'.user = u
             => \A v \in Users \ {u} :
                   /\ RecordUnchanged(providers, providers', v)
                   /\ RecordUnchanged(models, models', v)
                   /\ RecordUnchanged(states, states', v)
                   /\ SelectionUnchanged(v)
      ]_vars

\* User 2 quick-selected a model after user 1 had entered the wizard and chosen
\* Claude: user 1 is in the Claude model step with provider Claude still.
C23_Witness ==
    /\ IsCallbackOf(ev, 2)
    /\ ev.handler = "callback_quick_model_selected"
    /\ 2 \in DOMAIN providers /\ 2 \in DOMAIN models
    /\ get_state(states, 1) = CHOOSING_CLAUDE_MODEL
    /\ get_provider(providers, 1) = "Claude"
    /\ get_provider(providers, 2) # "Claude"

(***************************************************************************)
(* Two text messages of one user handled by two workers at once.           *)
(* telebot.TeleBot (src/bot_v4.py:39) is created with its defaults, which  *)
(* run the handlers on a pool of worker threads, and the handlers take no  *)
(* lock.  A handler is run statement by statement: the state check, the    *)
(* setter, the send, the state write.  The store the two workers start on  *)
(* has a record of each kind for the user; every such store is reached by  *)
(* the bot within MaxEvents events.                                        *)
(***************************************************************************)
WorkerUser == 1
WorkerTexts == {"/choose_model", "ChatGPT", "Claude", "gpt-4o", "claude-3-haiku-20240307"}
HandlerOfText == [t \in WorkerTexts |-> MessageHandler(t)]

FirstStep(handler) == IF handler = "choose_model" THEN "send_preparing" ELSE "check"
Job(text) == [handler |-> HandlerOfText[text], text |-> text,
              pc |-> FirstStep(HandlerOfText[text])]

Store(ps, ms, ss) == [providers |-> ps, models |-> ms, states |-> ss]

InitWorkers ==
    /\ ev = NoEvent
    /\ calls = <<>>
    /\ sent = <<>>
    /\ senders = {WorkerUser}
    /\ budget = 0
    /\ \E p \in ProviderNames, m \in StoredModels, s \in StoredStates :
          /\ providers = set_provider(<<>>, WorkerUser, p)
          /\ models = set_model(<<>>, WorkerUser, m)
          /\ states = set_state(<<>>, WorkerUser, s)
          /\ \E t1 \in WorkerTexts, t2 \in WorkerTexts :
                unit = [pc |-> "workers",
                        store0 |-> Store(providers, models, states),
                        job |-> <<Job(t1), Job(t2)>>]

\* The state check at the top of a wizard handler.
StepActive(handler, ss, u) ==
    IF handler = "handle_provider_choice" THEN provider_step_active(ss, u)
    ELSE IF handler = "handle_model_choice" THEN chatgpt_step_active(ss, u)
    ELSE IF handler = "handle_claude_model_choice" THEN claude_step_active(ss, u)
    ELSE deepseek_step_active(ss, u)

\* Worker w is at step pc of its handler and moves on to step next.
AtStep(w, pc) == unit.pc = "workers" /\ unit.job[w].pc = pc
Goto(w, next) == unit' = [unit EXCEPT !.job[w].pc = next]
WorkerFrame == UNCHANGED <<ev, calls, senders, budget>>

\* if user_data.get_state(user_id) != ...: the branch is taken on the state read
worker_check ==
    \E w \in {1, 2} :
        /\ AtStep(w, "check")
        /\ Goto(w, IF ~StepActive(unit.job[w].handler, states, WorkerUser) THEN "reject"
                   ELSE IF unit.job[w].handler = "handle_provider_choice"
                   THEN "set_provider"
                   ELSE "set_model")
        /\ UNCHANGED <<models, states, providers, sent>>
        /\ WorkerFrame

\* the corrective message and return
worker_reject ==
    \E w \in {1, 2} :
        /\ AtStep(w, "reject")
        /\ sent' = Append(sent, Msg(IF unit.job[w].handler = "handle_provider_choice"
                                    THEN "use_choose_model" ELSE "choose_provider_first",
                                    <<>>))
        /\ Goto(w, "done")
        /\ UNCHANGED <<models, states, providers>>
        /\ WorkerFrame

\* choose_model, lines 285 and 290: the two sends
worker_send_preparing ==
    \E w \in {1, 2} :
        /\ AtStep(w, "send_preparing")
        /\ sent' = Append(sent, Msg("preparing_menu", <<>>))
        /\ Goto(w, "send_menu")
        /\ UNCHANGED <<models, states, providers>>
        /\ WorkerFrame

worker_send_menu ==
    \E w \in {1, 2} :
        /\ AtStep(w, "send_menu")
        /\ sent' = Append(sent, Msg(IF unit.job[w].handler = "choose_model"
                                    THEN "choose_provider_menu" ELSE "choose_model_menu",
                                    IF unit.job[w].handler = "choose_model"
                                    THEN <<>> ELSE <<unit.job[w].text>>))
        /\ Goto(w, "set_state")
        /\ UNCHANGED <<models, states, providers>>
        /\ WorkerFrame

\* line 291 and lines 396, 402, 408: user_data.set_state
worker_set_state ==
    \E w \in {1, 2} :
        /\ AtStep(w, "set_state")
        /\ states' = IF unit.job[w].handler = "choose_model"
                     THEN choose_model_state(states, WorkerUser)
                     ELSE set_state(states, WorkerUser, awaiting_state(unit.job[w].text))
        /\ Goto(w, "done")
        /\ UNCHANGED <<models, providers, sent>>
        /\ WorkerFrame

\* line 389: user_data.set_provider(user_id, message.text)
worker_set_provider ==
    \E w \in {1, 2} :
        /\ AtStep(w, "set_provider")
        /\ providers' = set_provider(providers, WorkerUser, unit.job[w].text)
        /\ Goto(w, "send_menu")
        /\ UNCHANGED <<models, states, sent>>
        /\ WorkerFrame

\* lines 421, 440, 459: user_data.set_model(user_id, message.text)
worker_set_model ==
    \E w \in {1, 2} :
        /\ AtStep(w, "set_model")
        /\ models' = set_model(models, WorkerUser, unit.job[w].text)
        /\ Goto(w, "send_chosen")
        /\ UNCHANGED <<states, providers, sent>>
        /\ WorkerFrame

worker_send_chosen ==
    \E w \in {1, 2} :
        /\ AtStep(w, "send_chosen")
        /\ sent' = Append(sent, Msg("model_chosen", <<unit.job[w].text>>))
        /\ Goto(w, "reset_state")
        /\ UNCHANGED <<models, states, providers>>
        /\ WorkerFrame

\* lines 428, 447, 466: user_data.reset_state(user_id)
worker_reset_state ==
    \E w \in {1, 2} :
        /\ AtStep(w, "reset_state")
        /\ states' = reset_state(states, WorkerUser)
        /\ Goto(w, "done")
        /\ UNCHANGED <<models, providers, sent>>
        /\ WorkerFrame

NextWorkers ==
    \/ worker_check
    \/ worker_reject
    \/ worker_send_preparing
    \/ worker_send_menu
    \/ worker_set_state
    \/ worker_set_provider
    \/ worker_set_model
    \/ worker_send_chosen
    \/ worker_reset_state

SpecWorkers == InitWorkers /\ [][NextWorkers]_vars

\* The store after a handler has run from its first statement to its last on
\* store s, with no other handler in between.
Handled(s, job) ==
    IF job.handler = "choose_model"
    THEN [s EXCEPT !.states = choose_model_state(s.states, WorkerUser)]
    ELSE IF ~StepActive(job.handler, s.states, WorkerUser) THEN s
    ELSE IF job.handler = "handle_provider_choice"
    THEN [s EXCEPT !.providers = set_provider(s.providers, WorkerUser, job.text),
                   !.states = set_state(s.states, WorkerUser, awaiting_state(job.text))]
    ELSE [s EXCEPT !.models = set_model(s.models, WorkerUser, job.text),
                   !.states = reset_state(s.states, WorkerUser)]

WorkersDone == unit.pc = "workers" /\ unit.job[1].pc = "done" /\ unit.job[2].pc = "done"

(***************************************************************************)
(* C24  Same-user events stay coherent under interleaving: when two events *)
(* of one user have been handled by two workers whose statements           *)
(* interleave without locking, the provider, model and state of the user   *)
(* are what handling the two events one after the other, in one of the two *)
(* orders, leaves.                                                         *)
(***************************************************************************)
C24_InterleavingIsSerializable ==
    WorkersDone =>
        \/ Store(providers, models, states)
              = Handled(Handled(unit.store0, unit.job[1]), unit.job[2])
        \/ Store(providers, models, states)
              = Handled(Handled(unit.store0, unit.job[2]), unit.job[1])

====
